---- MODULE Spec2Model ----
(***************************************************************************)
(* Scheduling and queue management of yt-meme-bot: the sqlite job store    *)
(* (app/db.py), the slot allocator, the periodic sweep process_scheduled   *)
(* (scheduler.py), the submission handler handle_upload (app/uploader.py)  *)
(* and the deletion handler with its cascading shift (app/bot.py,          *)
(* app/queue_manager.py).                                                  *)
(*                                                                         *)
(* Everything runs on one asyncio event loop: a coroutine runs atomically  *)
(* from one await to the next, so every action below is the code between   *)
(* two awaits.  The sweep is one APScheduler job, telegram updates are     *)
(* processed one at a time (Application.builder() without                  *)
(* concurrent_updates), so there is one sweep and one request in flight,   *)
(* interleaving with each other at their awaits.                           *)
(*                                                                         *)
(* Instants are minutes since the UTC midnight of day 0; the ISO string    *)
(* prefix that the LIKE queries compare is the day number t \div 1440.     *)
(* The clock visits every TickMinutes of a day, the instant AwaitMinutes   *)
(* before each midnight, and each midnight.  An await is a Telegram API    *)
(* call, which the HTTP client times out: while the sweep or a request is  *)
(* suspended in one, the clock moves by at most AwaitMinutes (which is     *)
(* enough to carry an await across midnight).                              *)
(***************************************************************************)
EXTENDS Integers, Sequences, FiniteSets, TLC

\* ---------------------------------------------------------------- bounds
MaxJobs == 4
MaxClock == 2880
TickMinutes == 720
AwaitMinutes == 1
MaxChannels == 1
MaxQueue == 2

\* ------------------------------------------------------ program constants
MinutesPerDay == 1440
MinutesPerHour == 60
SeqBase == 100
NULL == -1
ErrorLimit == 500
TagLimit == 495
SeparatorLen == 2
SampleSize == 5
MinKeyword == 4
MinInput == 4
NoNumber == 99
\* cfg["admin_id"], a Telegram user id
ADMIN_ID == 1
PAGE_SIZE == 5

\* content digests, opaque to the program
Hashes == {"h1"}

\* the titles the user types
Titles == {"meme"}

\* configurations accepted by load_config, a small sample of them
Configs ==
    { [daily_limit |-> 1, upload_start_hour |-> 23,
       upload_interval_minutes |-> 60],
      [daily_limit |-> 2, upload_start_hour |-> 10,
       upload_interval_minutes |-> 30] }

VARIABLES
    cfg,        \* the configuration dict
    uploads,    \* the uploads table: id -> row
    next_id,    \* sqlite AUTOINCREMENT counter
    clock,      \* dt.datetime.now(tz=utc), in minutes
    sweep,      \* process_scheduled: position and locals
    req,        \* the request handler in flight: position and locals
    reply,      \* the message the last step sent back to the user, if any
    sweep_log,  \* how the sweep ended, if the last step ended one
    ret,        \* what the call that the last step completed was given
                \* and what it returned or raised, if the step completed one
    database_file,       \* metadata.py: the JSON file of the queue
    tags_template_file,  \* metadata.py: the JSON file of template tags
    metadata,   \* what the last call of create_video_metadata returned
    final_tags  \* what the last call of generate_tags returned

\* the files and results of metadata.py, which the bot never touches
metadata_vars == <<database_file, tags_template_file, metadata, final_tags>>

vars == <<cfg, uploads, next_id, clock, sweep, req, reply, sweep_log, ret,
          database_file, tags_template_file, metadata, final_tags>>

\* ------------------------------------------------------------- time
DateOf(t) == t \div MinutesPerDay

start_of_day_utc(d) == d * MinutesPerDay

\* ------------------------------------------------------------- db.py
Ids(db) == DOMAIN db

\* a text of the error column: what it says and how many characters it has
ErrorText(msg, chars) == [msg |-> msg, len |-> chars]

\* the error column of a row that was given no error
NoError == ErrorText("", 0)

\* text[:limit]
truncate(text, limit) ==
    [text EXCEPT !.len = IF @ > limit THEN limit ELSE @]

\* the insert, had file_hash been a key that the new row takes over
log_new_job_replace(db, id, title, scheduled_at, status, seq_no, file_hash, uploaded_at) ==
    LET new == [title |-> title, status |-> status,
                scheduled_at |-> scheduled_at,
                uploaded_at |-> uploaded_at, error |-> NoError,
                seq_no |-> seq_no, file_hash |-> file_hash]
    IN [i \in Ids(db) \cup {id} |->
           IF i = id \/ db[i].file_hash = file_hash THEN new ELSE db[i]]

log_new_job(db, id, title, scheduled_at, status, seq_no, file_hash, uploaded_at) ==
    [i \in Ids(db) \cup {id} |->
        IF i = id
        THEN [title |-> title, status |-> status,
              scheduled_at |-> scheduled_at,
              uploaded_at |-> uploaded_at, error |-> NoError,
              seq_no |-> seq_no, file_hash |-> file_hash]
        ELSE db[i]]

\* the lookup, had it looked at the queued rows only
check_if_hash_exists_scheduled(db, file_hash) ==
    LET hits == {i \in Ids(db) : /\ db[i].file_hash = file_hash
                                 /\ db[i].status = "scheduled"}
    IN IF hits = {} THEN [date |-> NULL, title |-> <<>>]
       ELSE LET row == CHOOSE i \in hits : \A j \in hits : i <= j
            IN [date |-> DateOf(db[row].scheduled_at),
                title |-> db[row].title]

\* no row: the (date, title) that stands for None
NoDup == [date |-> NULL, title |-> <<>>]

\* SELECT ... WHERE file_hash = ? LIMIT 1 scans the table in rowid order
check_if_hash_exists(db, file_hash) ==
    LET hits == {i \in Ids(db) : db[i].file_hash = file_hash}
    IN IF hits = {} THEN NoDup
       ELSE LET row == CHOOSE i \in hits : \A j \in hits : i <= j
            IN [date |-> DateOf(db[row].scheduled_at),
                title |-> db[row].title]

\* the update, had it cleared the row out of the queue table once uploaded
mark_uploaded_purge(db, job_id, when) ==
    [i \in Ids(db) \ {job_id} |-> db[i]]

mark_uploaded(db, job_id, when) ==
    [i \in Ids(db) |->
        IF i = job_id
        THEN [db[i] EXCEPT !.status = "uploaded", !.uploaded_at = when]
        ELSE db[i]]

mark_failed(db, job_id, error_text) ==
    [i \in Ids(db) |->
        IF i = job_id
        THEN [db[i] EXCEPT !.status = "failed",
                           !.error = truncate(error_text, ErrorLimit)]
        ELSE db[i]]

reschedule(db, job_id, new_time, reason) ==
    [i \in Ids(db) |->
        IF i = job_id
        THEN [db[i] EXCEPT !.status = "scheduled", !.scheduled_at = new_time,
                           !.error = reason]
        ELSE db[i]]

\* the count, had the query left out the date
count_uploaded_on_any(db, date_utc) ==
    Cardinality({i \in Ids(db) : /\ db[i].status = "uploaded"
                                 /\ db[i].uploaded_at # NULL})

\* count_uploaded_on, had the LIKE pattern lacked its %
count_uploaded_on_exact(db, date_utc) ==
    Cardinality({i \in Ids(db) : /\ db[i].status = "uploaded"
                                 /\ db[i].uploaded_at # NULL
                                 /\ db[i].uploaded_at
                                       = date_utc * MinutesPerDay})

count_uploaded_on(db, date_utc) ==
    Cardinality({i \in Ids(db) : /\ db[i].status = "uploaded"
                                 /\ db[i].uploaded_at # NULL
                                 /\ DateOf(db[i].uploaded_at) = date_utc})

\* count_scheduled_on, had the query left out the status
count_scheduled_on_any(db, date_utc) ==
    Cardinality({i \in Ids(db) : DateOf(db[i].scheduled_at) = date_utc})

count_scheduled_on(db, date_utc) ==
    Cardinality({i \in Ids(db) : /\ db[i].status = "scheduled"
                                 /\ DateOf(db[i].scheduled_at) = date_utc})

next_seq_no(db, base) ==
    IF Ids(db) = {} THEN base
    ELSE LET m == CHOOSE i \in Ids(db) :
                      \A j \in Ids(db) : db[j].seq_no <= db[i].seq_no
         IN db[m].seq_no + 1

\* rows of S in ascending (scheduled_at, id) order
RECURSIVE OrderRows(_, _)
OrderRows(db, S) ==
    IF S = {} THEN <<>>
    ELSE LET first == CHOOSE i \in S : \A j \in S :
                          \/ db[i].scheduled_at < db[j].scheduled_at
                          \/ /\ db[i].scheduled_at = db[j].scheduled_at
                             /\ i <= j
         IN <<first>> \o OrderRows(db, S \ {first})

\* the query, had it left out the comparison with now
due_jobs_all(db, now_utc) ==
    OrderRows(db, {i \in Ids(db) : db[i].status = "scheduled"})

due_jobs(db, now_utc) ==
    OrderRows(db, {i \in Ids(db) : /\ db[i].status = "scheduled"
                                   /\ db[i].scheduled_at <= now_utc})

\* the DELETE and the value the function returns
delete_scheduled_video(db, job_id) ==
    [db |-> [i \in {j \in Ids(db) :
                       ~(j = job_id /\ db[j].status = "scheduled")}
                |-> db[i]],
     ok |-> TRUE]

\* get_scheduled_after, had the query left out the status
get_scheduled_after_any(db, scheduled_at) ==
    OrderRows(db, {i \in Ids(db) : db[i].scheduled_at > scheduled_at})

get_scheduled_after(db, scheduled_at) ==
    OrderRows(db, {i \in Ids(db) : /\ db[i].status = "scheduled"
                                   /\ db[i].scheduled_at > scheduled_at})

reschedule_forward(db, job_id, new_scheduled_at) ==
    [i \in Ids(db) |->
        IF i = job_id
        THEN [db[i] EXCEPT !.scheduled_at = new_scheduled_at]
        ELSE db[i]]

\* the lookup, had it left out the status
get_video_details_any(db, job_id) ==
    IF job_id \in Ids(db) THEN job_id ELSE NULL

get_video_details(db, job_id) ==
    IF job_id \in Ids(db) /\ db[job_id].status = "scheduled"
    THEN job_id ELSE NULL

\* --------------------------------------------------- queue_manager.py
\* lines 19-24: the loop over the rows read at line 16, old_time being the
\* scheduled_at that was read then
RECURSIVE queue_deletion_loop(_, _, _, _, _)
queue_deletion_loop(db, old, later_videos, interval, count) ==
    IF later_videos = <<>> THEN [db |-> db, count |-> count]
    ELSE LET job_id == Head(later_videos)
             new_time == old[job_id].scheduled_at - interval
         IN queue_deletion_loop(reschedule_forward(db, job_id, new_time),
                                old, Tail(later_videos), interval, count + 1)

\* the cascade, had it moved the later rows away from the freed slot
handle_queue_deletion_later(db, c, deleted_time) ==
    queue_deletion_loop(db, db, get_scheduled_after(db, deleted_time),
                        0 - c.upload_interval_minutes, 0)

\* the cascade, had it left alone the rows that the shift makes due
handle_queue_deletion_guarded(db, c, deleted_time) ==
    LET interval == c.upload_interval_minutes
        from == IF clock + interval > deleted_time THEN clock + interval
                ELSE deleted_time
    IN queue_deletion_loop(db, db, get_scheduled_after(db, from),
                           interval, 0)

handle_queue_deletion(db, c, deleted_time) ==
    LET interval == c.upload_interval_minutes
        later_videos == get_scheduled_after(db, deleted_time)
    IN queue_deletion_loop(db, db, later_videos, interval, 0)

\* -------------------------------------------------- app/uploader.py
\* line 92: the title carries the text typed and the sequence number
enhance_metadata(base_title, seq_no) == <<base_title, seq_no>>

\* ------------------------------------------------ the slot allocator
\* the allocator, had it taken its offset from the uploaded rows
compute_next_day_slot_uploaded(db, date_utc, start_hour, interval_min) ==
    LET start == start_of_day_utc(date_utc) + start_hour * MinutesPerHour
        offset_n == count_uploaded_on(db, date_utc)
    IN start + offset_n * interval_min

compute_next_day_slot(db, date_utc, start_hour, interval_min) ==
    LET start == start_of_day_utc(date_utc) + start_hour * MinutesPerHour
        offset_n == count_scheduled_on(db, date_utc)
    IN start + offset_n * interval_min

\* the allocator, had it left out the offset of the rows already queued
next_available_slot_first(db, c, target_date) ==
    target_date * MinutesPerDay + c.upload_start_hour * MinutesPerHour

next_available_slot(db, c, target_date) ==
    LET start == target_date * MinutesPerDay
                   + c.upload_start_hour * MinutesPerHour
        offset == count_scheduled_on(db, target_date)
    IN start + offset * c.upload_interval_minutes

\* ------------------------------------------------------------- state
SweepIdle == [pc |-> "idle", today |-> 0, uploaded_today |-> 0,
              due |-> <<>>, i |-> 0, num_ok |-> 0]

\* how a sweep ended; left and quota_hit describe the moment it ended:
\* the due jobs it never reached, and whether its running count had
\* reached the daily limit
SweepLog(result, sw) ==
    [result |-> result,
     left |-> Len(sw.due) - sw.i,
     quota_hit |-> sw.uploaded_today >= cfg.daily_limit]

NoLog == [result |-> "none", left |-> 0, quota_hit |-> FALSE]

\* context.user_data of the dialogue that leads to handle_upload: the keys
\* it holds when the confirmation card is shown
UserData == {"video_info", "video_title"}

ReqIdle == [pc |-> "idle", now |-> 0, uploaded_today |-> 0, seq_no |-> 0,
            user_data |-> {}]

\* line 200; the text typed is read where the title is stored
Title(base_title) == enhance_metadata(base_title, req.seq_no)

\* no call completed
NoRet == [force_upload |-> FALSE, file_hash |-> "", dup |-> NoDup,
          job_id |-> 0, deleted |-> FALSE, count |-> 0,
          user |-> NULL, videos |-> <<>>, buttons |-> {}]

\* delete_scheduled_video(job_id) returned ok, and handle_queue_deletion
\* after it, when it was called, returned count
DeleteRet(job_id, ok, count) ==
    [NoRet EXCEPT !.job_id = job_id, !.deleted = ok, !.count = count]

\* handle_upload(..., force_upload) on content with digest file_hash
\* returned, or raised DuplicateVideoError(dup.date, dup.title)
UploadRet(force_upload, file_hash, dup) ==
    [NoRet EXCEPT !.force_upload = force_upload, !.file_hash = file_hash,
                  !.dup = dup]

\* a file that open() does not find
MissingFile == [state |-> "missing", queue |-> <<>>, tag_list |-> <<>>]

\* no call of create_video_metadata has returned yet
NoMetadata ==
    [title |-> <<>>, description |-> "", tags |-> <<>>,
     madeForKids |-> FALSE, number |-> 0]

InitBot ==
    /\ uploads = <<>>
    /\ next_id = 1
    /\ clock = 0
    /\ sweep = SweepIdle
    /\ req = ReqIdle
    /\ reply = "none"
    /\ sweep_log = NoLog
    /\ ret = NoRet

Init ==
    /\ cfg \in Configs
    /\ InitBot
    /\ database_file = MissingFile
    /\ tags_template_file = MissingFile
    /\ metadata = NoMetadata
    /\ final_tags = <<>>

\* ------------------------------------------------------------- clock
\* the next instant the clock visits
NextInstant(t) ==
    LET midnight == (DateOf(t) + 1) * MinutesPerDay
    IN IF t + TickMinutes < midnight - AwaitMinutes THEN t + TickMinutes
       ELSE IF t < midnight - AwaitMinutes THEN midnight - AwaitMinutes
       ELSE midnight

Tick ==
    /\ NextInstant(clock) <= MaxClock
    /\ \/ sweep.pc = "idle" /\ req.pc = "idle"
       \/ NextInstant(clock) - clock <= AwaitMinutes
    /\ clock' = NextInstant(clock)
    /\ reply' = "none"
    /\ UNCHANGED metadata_vars
    /\ ret' = NoRet
    /\ sweep_log' = NoLog
    /\ UNCHANGED <<cfg, uploads, next_id, sweep, req>>

\* ------------------------------------------- scheduler.py: the sweep
DailyLimitReason ==
    ErrorText("Daily limit reached while processing queue", 42)

\* str(e) of what get_file, download_to_drive or upload_to_all raised: the
\* body of an API error response, longer than the limit of the column
DownloadError == ErrorText("download failed", ErrorLimit + 1)

\* str(e) of what send_message raised
SendMessageError == ErrorText("send_message failed", 19)

\* the except handler, had it given the job up instead of rescheduling it
except_handler_failed(db, c, today, job_id, e) ==
    LET tomorrow == today + 1
        new_time == compute_next_day_slot(db, tomorrow, c.upload_start_hour,
                                          c.upload_interval_minutes)
    IN [db |-> mark_failed(db, job_id, e), new_time |-> new_time]

\* lines 80-91, up to the await of send_message
except_handler(db, c, today, job_id, e) ==
    LET tomorrow == today + 1
        new_time == compute_next_day_slot(db, tomorrow, c.upload_start_hour,
                                          c.upload_interval_minutes)
    IN [db |-> reschedule(db, job_id, new_time, e), new_time |-> new_time]

\* lines 42-46, up to the await of send_message
limit_branch(db, c, today, job_id) ==
    LET tomorrow == today + 1
        new_time == compute_next_day_slot(db, tomorrow, c.upload_start_hour,
                                          c.upload_interval_minutes)
    IN [db |-> reschedule(db, job_id, new_time, DailyLimitReason),
        new_time |-> new_time]

\* the for loop from the head of iteration k to its first await, or to
\* the end of the sweep when the due list is exhausted
LoopHead(db, sw, k) ==
    IF k > Len(sw.due)
    THEN [db |-> db, sw |-> SweepIdle, log |-> SweepLog("done", SweepIdle)]
    ELSE IF sw.uploaded_today >= cfg.daily_limit
    THEN LET r == limit_branch(db, cfg, sw.today, sw.due[k])
         IN [db |-> r.db,
             sw |-> [sw EXCEPT !.pc = "send_limit", !.i = k, !.num_ok = 0],
             log |-> NoLog]
    ELSE [db |-> db,
          sw |-> [sw EXCEPT !.pc = "download", !.i = k, !.num_ok = 0],
          log |-> NoLog]

CurJob == sweep.due[sweep.i]

\* line 27: the job is registered without max_instances, so the scheduler
\* runs at most max_instances = 1 instance of it and skips a wake that
\* fires while that many are running
max_instances == 1

\* a wake, had the scheduler started the job however many were running
submit_job_unlimited(sw) == TRUE

submit_job(sw) ==
    LET instances == IF sw.pc = "idle" THEN 0 ELSE 1
    IN instances < max_instances

SweepQuotaMet ==
    /\ submit_job(sweep)
    /\ count_uploaded_on(uploads, DateOf(clock)) >= cfg.daily_limit
    /\ sweep_log' = SweepLog("quota", SweepIdle)
    /\ reply' = "none"
    /\ UNCHANGED metadata_vars
    /\ ret' = NoRet
    /\ UNCHANGED <<cfg, uploads, next_id, clock, sweep, req>>

SweepNothingDue ==
    /\ submit_job(sweep)
    /\ count_uploaded_on(uploads, DateOf(clock)) < cfg.daily_limit
    /\ due_jobs(uploads, clock) = <<>>
    /\ sweep_log' = SweepLog("empty", SweepIdle)
    /\ reply' = "none"
    /\ UNCHANGED metadata_vars
    /\ ret' = NoRet
    /\ UNCHANGED <<cfg, uploads, next_id, clock, sweep, req>>

SweepStart ==
    /\ submit_job(sweep)
    /\ LET now == clock
           today == DateOf(now)
           uploaded_today == count_uploaded_on(uploads, today)
           due == due_jobs(uploads, now)
       IN /\ uploaded_today < cfg.daily_limit
          /\ due # <<>>
          /\ LET r == LoopHead(uploads,
                               [SweepIdle EXCEPT !.today = today,
                                    !.uploaded_today = uploaded_today,
                                    !.due = due], 1)
             IN /\ uploads' = r.db
                /\ sweep' = r.sw
                /\ sweep_log' = r.log
    /\ reply' = "none"
    /\ UNCHANGED metadata_vars
    /\ ret' = NoRet
    /\ UNCHANGED <<cfg, next_id, clock, req>>

\* an await of the loop returned and the iteration is over: go on with
\* the next due job
SweepContinue ==
    /\ LET r == LoopHead(uploads, sweep, sweep.i + 1)
       IN /\ uploads' = r.db
          /\ sweep' = r.sw
          /\ sweep_log' = r.log
    /\ reply' = "none"
    /\ UNCHANGED metadata_vars
    /\ ret' = NoRet
    /\ UNCHANGED <<cfg, next_id, clock, req>>

\* an await outside the inner try raised: line 92 ends the sweep
SweepCrash ==
    /\ sweep' = SweepIdle
    /\ sweep_log' = SweepLog("crashed", sweep)
    /\ reply' = "none"
    /\ UNCHANGED metadata_vars
    /\ ret' = NoRet
    /\ UNCHANGED <<cfg, uploads, next_id, clock, req>>

\* an await inside the inner try raised e: line 80
SweepExcept(e) ==
    /\ LET r == except_handler(uploads, cfg, sweep.today, CurJob, e)
       IN /\ uploads' = r.db
          /\ sweep' = [sweep EXCEPT !.pc = "send_err"]
    /\ reply' = "none"
    /\ UNCHANGED metadata_vars
    /\ ret' = NoRet
    /\ sweep_log' = NoLog
    /\ UNCHANGED <<cfg, next_id, clock, req>>

\* line 47
SweepSendLimitOk ==
    /\ sweep.pc = "send_limit"
    /\ SweepContinue

SweepSendLimitFail ==
    /\ sweep.pc = "send_limit"
    /\ SweepCrash

\* get_file and download_to_drive returned (two awaits in a row with no
\* state in between, modelled as one): upload_to_all, mark_uploaded and the
\* running count, up to the await of send_message (lines 58-79)
SweepDownloadOk ==
    /\ sweep.pc = "download"
    /\ \E num_ok \in 0..MaxChannels :
          /\ uploads' = mark_uploaded(uploads, CurJob, clock)
          /\ sweep' = [sweep EXCEPT !.pc = "send_ok", !.num_ok = num_ok,
                          !.uploaded_today = sweep.uploaded_today + 1]
    /\ reply' = "none"
    /\ UNCHANGED metadata_vars
    /\ ret' = NoRet
    /\ sweep_log' = NoLog
    /\ UNCHANGED <<cfg, next_id, clock, req>>

\* lines 53-56 raised
SweepDownloadFail ==
    /\ sweep.pc = "download"
    /\ SweepExcept(DownloadError)

\* line 79
SweepSendOkOk ==
    /\ sweep.pc = "send_ok"
    /\ SweepContinue

SweepSendOkFail ==
    /\ sweep.pc = "send_ok"
    /\ SweepExcept(SendMessageError)

\* line 91
SweepSendErrOk ==
    /\ sweep.pc = "send_err"
    /\ SweepContinue

SweepSendErrFail ==
    /\ sweep.pc = "send_err"
    /\ SweepCrash

Sweep ==
    \/ SweepQuotaMet \/ SweepNothingDue \/ SweepStart
    \/ SweepSendLimitOk \/ SweepSendLimitFail
    \/ SweepDownloadOk \/ SweepDownloadFail
    \/ SweepSendOkOk \/ SweepSendOkFail
    \/ SweepSendErrOk \/ SweepSendErrFail

\* --------------------------------- app/uploader.py: handle_upload
\* lines 196-217, up to the awaits of bot.get_file and download_to_drive
\* (two awaits in a row with no state in between, modelled as one)
HandleUploadStart ==
    /\ req.pc = "idle"
    /\ next_id <= MaxJobs
    /\ req' = [pc |-> "download", now |-> clock,
               uploaded_today |-> count_uploaded_on(uploads, DateOf(clock)),
               seq_no |-> next_seq_no(uploads, SeqBase),
               user_data |-> UserData]
    /\ reply' = "processing"
    /\ UNCHANGED metadata_vars
    /\ ret' = NoRet
    /\ sweep_log' = NoLog
    /\ UNCHANGED <<cfg, uploads, next_id, clock, sweep>>

\* line 204: no credentials in channels/
HandleUploadNoChannels ==
    /\ req.pc = "idle"
    /\ next_id <= MaxJobs
    /\ reply' = "no_channels"
    /\ UNCHANGED metadata_vars
    /\ ret' = NoRet
    /\ sweep_log' = NoLog
    /\ UNCHANGED <<cfg, uploads, next_id, clock, sweep, req>>

\* get_file or download_to_drive raised: confirm_handler reports it
HandleUploadAwaitFail ==
    /\ req.pc = "download"
    /\ req' = ReqIdle
    /\ reply' = "error"
    /\ UNCHANGED metadata_vars
    /\ ret' = NoRet
    /\ sweep_log' = NoLog
    /\ UNCHANGED <<cfg, uploads, next_id, clock, sweep>>

\* The arguments of the call that the code reads only after its awaits
\* (the content, which calculate_hash digests, force_upload and the
\* credentials in channels/) are drawn where they are first used.

\* the duplicate check, had it looked among the queued rows only
Duplicate_scheduled(db, file_hash, force_upload) ==
    /\ ~force_upload
    /\ \E i \in Ids(db) : /\ db[i].file_hash = file_hash
                          /\ db[i].status = "scheduled"

\* lines 219-228: the duplicate check
Duplicate(db, file_hash, force_upload) ==
    /\ ~force_upload
    /\ check_if_hash_exists(db, file_hash) # NoDup

\* lines 219-225
HandleUploadDuplicate ==
    /\ req.pc = "download"
    /\ \E file_hash \in Hashes :
          /\ Duplicate(uploads, file_hash, FALSE)
          /\ UNCHANGED metadata_vars
          /\ ret' = UploadRet(FALSE, file_hash,
                              check_if_hash_exists(uploads, file_hash))
    /\ req' = ReqIdle
    /\ reply' = "duplicate"
    /\ sweep_log' = NoLog
    /\ UNCHANGED <<cfg, uploads, next_id, clock, sweep>>

\* lines 234-236, had the failed call been recorded as a row
HandleUploadFfmpegFail_logged ==
    /\ req.pc = "download"
    /\ \E base_title \in Titles, file_hash \in Hashes,
          force_upload \in BOOLEAN :
          /\ ~Duplicate(uploads, file_hash, force_upload)
          /\ uploads' = log_new_job(uploads, next_id, Title(base_title),
                                    req.now, "failed", req.seq_no,
                                    file_hash, NULL)
          /\ UNCHANGED metadata_vars
          /\ ret' = UploadRet(force_upload, file_hash, NoDup)
    /\ next_id' = next_id + 1
    /\ req' = ReqIdle
    /\ reply' = "ffmpeg_error"
    /\ sweep_log' = NoLog
    /\ UNCHANGED <<cfg, clock, sweep>>

\* lines 234-236: process_video returned None
HandleUploadFfmpegFail ==
    /\ req.pc = "download"
    /\ \E file_hash \in Hashes, force_upload \in BOOLEAN :
          /\ ~Duplicate(uploads, file_hash, force_upload)
          /\ UNCHANGED metadata_vars
          /\ ret' = UploadRet(force_upload, file_hash, NoDup)
    /\ req' = ReqIdle
    /\ reply' = "ffmpeg_error"
    /\ sweep_log' = NoLog
    /\ UNCHANGED <<cfg, uploads, next_id, clock, sweep>>

\* lines 243-265
HandleUploadNow ==
    /\ req.pc = "download"
    /\ req.uploaded_today < cfg.daily_limit
    /\ \E base_title \in Titles, file_hash \in Hashes,
          force_upload \in BOOLEAN, channels \in 1..MaxChannels :
       \E num_ok \in 0..channels :
          /\ ~Duplicate(uploads, file_hash, force_upload)
          /\ uploads' = log_new_job(uploads, next_id, Title(base_title),
                                    req.now, "uploaded", req.seq_no,
                                    file_hash, req.now)
          /\ reply' = IF num_ok = channels THEN "uploaded_all"
                      ELSE "uploaded_partial"
          /\ UNCHANGED metadata_vars
          /\ ret' = UploadRet(force_upload, file_hash, NoDup)
    /\ next_id' = next_id + 1
    /\ req' = ReqIdle
    /\ sweep_log' = NoLog
    /\ UNCHANGED <<cfg, clock, sweep>>

\* lines 266-283
HandleUploadQueue ==
    /\ req.pc = "download"
    /\ req.uploaded_today >= cfg.daily_limit
    /\ \E base_title \in Titles, file_hash \in Hashes,
          force_upload \in BOOLEAN :
          /\ ~Duplicate(uploads, file_hash, force_upload)
          /\ LET tomorrow == DateOf(req.now) + 1
                 scheduled_time == next_available_slot(uploads, cfg, tomorrow)
             IN uploads' = log_new_job(uploads, next_id, Title(base_title),
                                 scheduled_time, "scheduled", req.seq_no,
                                 file_hash, NULL)
          /\ UNCHANGED metadata_vars
          /\ ret' = UploadRet(force_upload, file_hash, NoDup)
    /\ next_id' = next_id + 1
    /\ req' = ReqIdle
    /\ reply' = "scheduled"
    /\ sweep_log' = NoLog
    /\ UNCHANGED <<cfg, clock, sweep>>

\* ----------------------------------- app/bot.py: delete_yes_handler
\* The id comes from the callback data of a button that the queue listing
\* made for a job: it is the id of a job that was created, which may have
\* been uploaded, rescheduled or deleted since.
DeleteNotFound ==
    /\ req.pc = "idle"
    /\ \E job_id \in 1..(next_id - 1) :
          get_video_details(uploads, job_id) = NULL
    /\ reply' = "not_found"
    /\ UNCHANGED metadata_vars
    /\ ret' = NoRet
    /\ sweep_log' = NoLog
    /\ UNCHANGED <<cfg, uploads, next_id, clock, sweep, req>>

DeleteYes ==
    /\ req.pc = "idle"
    /\ \E job_id \in 1..MaxJobs :
          /\ get_video_details(uploads, job_id) # NULL
          /\ LET scheduled_at == uploads[job_id].scheduled_at
                 deleted == delete_scheduled_video(uploads, job_id)
                 shifted == handle_queue_deletion(deleted.db, cfg,
                                                  scheduled_at)
                 rescheduled_count == shifted.count
             IN /\ uploads' = shifted.db
                /\ reply' = IF rescheduled_count > 0 THEN "deleted_shifted"
                            ELSE "deleted"
                /\ UNCHANGED metadata_vars
                /\ ret' = DeleteRet(job_id, deleted.ok, rescheduled_count)
    /\ sweep_log' = NoLog
    /\ UNCHANGED <<cfg, next_id, clock, sweep, req>>

Request ==
    \/ HandleUploadStart \/ HandleUploadNoChannels
    \/ HandleUploadAwaitFail
    \/ HandleUploadDuplicate \/ HandleUploadFfmpegFail
    \/ HandleUploadNow \/ HandleUploadQueue
    \/ DeleteNotFound \/ DeleteYes

Next == Tick \/ Sweep \/ Request

Spec == Init /\ [][Next]_vars

\* The same bot under a wider sample of configurations: load_config takes
\* any positive upload_interval_minutes, a whole day among them.
WideConfigs ==
    Configs \cup { [daily_limit |-> 1, upload_start_hour |-> 12,
                    upload_interval_minutes |-> MinutesPerDay] }

InitWide ==
    /\ cfg \in WideConfigs
    /\ InitBot
    /\ database_file = MissingFile
    /\ tags_template_file = MissingFile
    /\ metadata = NoMetadata
    /\ final_tags = <<>>

SpecWide == InitWide /\ [][Next]_vars

\* -------------------------------------- scheduler.py: the quiet queue
\* The sweep alone with a queue that nobody touches any more, every await
\* of it returning: what is left of Next when no request arrives and
\* nothing raises. The interval job wakes every 60 seconds, so a wake falls
\* on every instant the clock visits; the clock runs until every job that
\* was submitted has had a day of its own.
LiveHorizon == (MaxJobs + 1) * MinutesPerDay

\* the store after n submissions in a row at instant 0, each one accepted:
\* the branches of handle_upload at lines 238-283
RECURSIVE Submitted(_, _)
Submitted(c, n) ==
    IF n = 0 THEN <<>>
    ELSE LET db == Submitted(c, n - 1)
             seq_no == next_seq_no(db, SeqBase)
             title == enhance_metadata("meme", seq_no)
         IN IF count_uploaded_on(db, 0) < c.daily_limit
            THEN log_new_job(db, n, title, 0, "uploaded", seq_no, "h1", 0)
            ELSE log_new_job(db, n, title, next_available_slot(db, c, 1),
                             "scheduled", seq_no, "h1", NULL)

InitLive ==
    /\ cfg \in Configs
    /\ \E n \in 0..MaxJobs : /\ uploads = Submitted(cfg, n)
                             /\ next_id = n + 1
    /\ clock = 0
    /\ sweep = SweepIdle
    /\ req = ReqIdle
    /\ reply = "none"
    /\ sweep_log = NoLog
    /\ ret = NoRet
    /\ database_file = MissingFile
    /\ tags_template_file = MissingFile
    /\ metadata = NoMetadata
    /\ final_tags = <<>>

\* the clock moves on once the wake of this instant has run, and by at
\* most AwaitMinutes while the sweep is suspended in an await
TickLive ==
    /\ NextInstant(clock) <= LiveHorizon
    /\ \/ sweep.pc = "idle" /\ sweep_log # NoLog
       \/ sweep.pc # "idle" /\ NextInstant(clock) - clock <= AwaitMinutes
    /\ clock' = NextInstant(clock)
    /\ reply' = "none"
    /\ UNCHANGED metadata_vars
    /\ ret' = NoRet
    /\ sweep_log' = NoLog
    /\ UNCHANGED <<cfg, uploads, next_id, sweep, req>>

SweepLive ==
    \/ SweepQuotaMet \/ SweepNothingDue \/ SweepStart
    \/ SweepSendLimitOk \/ SweepDownloadOk \/ SweepSendOkOk

LiveNext == TickLive \/ SweepLive

SpecLive ==
    InitLive /\ [][LiveNext]_vars /\ WF_vars(TickLive) /\ WF_vars(SweepLive)

\* ------------------------- app/bot.py: the handlers and their senders
\* Every update carries its sender, update.effective_user.  Here each
\* handler that main() registers outside the conversation is taken with the
\* sender of its update; ret.user is the sender of the update served last,
\* ret.videos the jobs whose title and time the answer shows, ret.buttons
\* the callback data of the inline keyboard under the queue message.  A
\* callback query reaches its handler only through a button that is there.

\* the senders: the admin of the configuration and somebody else
Users == {ADMIN_ID, ADMIN_ID + 1}

_is_authorized(user) == user = ADMIN_ID

Button(kind, arg) == [kind |-> kind, arg |-> arg]

get_scheduled_videos(db, limit, offset) ==
    LET rows == OrderRows(db, {i \in Ids(db) : db[i].status = "scheduled"})
        last == IF offset + limit < Len(rows) THEN offset + limit
                ELSE Len(rows)
    IN SubSeq(rows, offset + 1, last)

count_scheduled_videos(db) ==
    Cardinality({i \in Ids(db) : db[i].status = "scheduled"})

\* the text, the rows shown and the keyboard of the queue message
_format_queue_message(videos, page, total_count) ==
    LET total_pages == (total_count + PAGE_SIZE - 1) \div PAGE_SIZE
        nav_buttons ==
            IF total_pages > 1
            THEN (IF page > 0 THEN {Button("queue_page", page - 1)} ELSE {})
                 \cup {Button("queue_noop", NULL)}
                 \cup (IF page < total_pages - 1
                       THEN {Button("queue_page", page + 1)} ELSE {})
            ELSE {}
    IN IF videos = <<>>
       THEN [text |-> "queue_empty", videos |-> <<>>, buttons |-> {}]
       ELSE [text |-> "queue_listing", videos |-> videos,
             buttons |-> {Button("delete_confirm", videos[k]) :
                             k \in 1..Len(videos)} \cup nav_buttons]

\* lines 312-315, 330-333 and 417-420: the queue message of a page
QueuePage(db, page) ==
    _format_queue_message(
        get_scheduled_videos(db, PAGE_SIZE, page * PAGE_SIZE), page,
        count_scheduled_videos(db))

\* reply_text or edit_message_text, and what the handler leaves alone
Respond(user, text, videos, buttons) ==
    /\ reply' = text
    /\ ret' = [NoRet EXCEPT !.user = user, !.videos = videos,
                            !.buttons = buttons]
    /\ UNCHANGED metadata_vars
    /\ sweep_log' = NoLog
    /\ UNCHANGED <<cfg, uploads, next_id, clock, sweep, req>>

\* lines 54-64
AuthStart ==
    \E user \in Users :
       IF _is_authorized(user)
       THEN Respond(user, "hello", <<>>, ret.buttons)
       ELSE Respond(user, "access_denied", <<>>, ret.buttons)

\* lines 67-73: the entry point of the conversation
AuthUpload ==
    \E user \in Users :
       IF _is_authorized(user)
       THEN Respond(user, "ask_video", <<>>, ret.buttons)
       ELSE Respond(user, "access_denied", <<>>, ret.buttons)

\* lines 228-243
AuthStatus ==
    \E user \in Users :
       IF _is_authorized(user)
       THEN Respond(user, "status", <<>>, ret.buttons)
       ELSE Respond(user, "access_denied", <<>>, ret.buttons)

\* lines 306-316
AuthQueue ==
    \E user \in Users :
       IF _is_authorized(user)
       THEN LET m == QueuePage(uploads, 0)
            IN Respond(user, m.text, m.videos, m.buttons)
       ELSE Respond(user, "access_denied", <<>>, ret.buttons)

\* lines 319-334, a press of Prev or Next
AuthQueuePage ==
    \E user \in Users, b \in ret.buttons :
       /\ b.kind = "queue_page"
       /\ LET m == QueuePage(uploads, b.arg)
          IN Respond(user, m.text, m.videos, m.buttons)

\* lines 319-325, a press of the page counter: the message stays
AuthQueueNoop ==
    \E user \in Users, b \in ret.buttons :
       /\ b.kind = "queue_noop"
       /\ Respond(user, "none", <<>>, ret.buttons)

\* lines 337-367
AuthDeleteConfirm ==
    \E user \in Users, b \in ret.buttons :
       /\ b.kind = "delete_confirm"
       /\ LET job_id == b.arg
          IN IF get_video_details(uploads, job_id) = NULL
             THEN Respond(user, "not_found", <<>>, {})
             ELSE Respond(user, "confirm_deletion", <<job_id>>,
                          {Button("delete_yes", job_id),
                           Button("delete_cancel", NULL)})

\* lines 370-402
AuthDeleteYes ==
    \E user \in Users, b \in ret.buttons :
       /\ b.kind = "delete_yes"
       /\ LET job_id == b.arg
          IN IF get_video_details(uploads, job_id) = NULL
             THEN Respond(user, "not_found", <<>>, {})
             ELSE LET scheduled_at == uploads[job_id].scheduled_at
                      deleted == delete_scheduled_video(uploads, job_id)
                      shifted == handle_queue_deletion(deleted.db, cfg,
                                                       scheduled_at)
                      rescheduled_count == shifted.count
                  IN /\ uploads' = shifted.db
                     /\ reply' = IF rescheduled_count > 0
                                 THEN "deleted_shifted" ELSE "deleted"
                     /\ ret' = [DeleteRet(job_id, deleted.ok,
                                          rescheduled_count)
                                EXCEPT !.user = user,
                                       !.buttons =
                                          {Button("back_to_queue", NULL)}]
                     /\ UNCHANGED metadata_vars
                     /\ sweep_log' = NoLog
                     /\ UNCHANGED <<cfg, next_id, clock, sweep, req>>

\* lines 405-409
AuthDeleteCancel ==
    \E user \in Users, b \in ret.buttons :
       /\ b.kind = "delete_cancel"
       /\ Respond(user, "deletion_cancelled", <<>>, {})

\* lines 412-420
AuthBackToQueue ==
    \E user \in Users, b \in ret.buttons :
       /\ b.kind = "back_to_queue"
       /\ LET m == QueuePage(uploads, 0)
          IN Respond(user, m.text, m.videos, m.buttons)

\* the queue when the updates come: what n accepted submissions left,
\* enough of them to fill more than one page
InitAuth ==
    /\ cfg \in Configs
    /\ \E n \in 0..(PAGE_SIZE + 1 + cfg.daily_limit) :
          /\ uploads = Submitted(cfg, n)
          /\ next_id = n + 1
    /\ clock = 0
    /\ sweep = SweepIdle
    /\ req = ReqIdle
    /\ reply = "none"
    /\ sweep_log = NoLog
    /\ ret = NoRet
    /\ database_file = MissingFile
    /\ tags_template_file = MissingFile
    /\ metadata = NoMetadata
    /\ final_tags = <<>>

AuthNext ==
    \/ AuthStart \/ AuthUpload \/ AuthStatus \/ AuthQueue
    \/ AuthQueuePage \/ AuthQueueNoop
    \/ AuthDeleteConfirm \/ AuthDeleteYes \/ AuthDeleteCancel
    \/ AuthBackToQueue

SpecAuth == InitAuth /\ [][AuthNext]_vars

\* ------------------------------- app/bot.py: the /upload conversation
\* Spec starts at the press of the confirm button; here the dialogue that
\* leads to it is spelled out, with the positions ASK_VIDEO, ASK_TITLE and
\* CONFIRM of the ConversationHandler and the keys of context.user_data.

\* context.user_data.clear() and return ConversationHandler.END, had the
\* handler left the session data in place
EndConversation_keep(r) == [r EXCEPT !.pc = "idle"]

\* context.user_data.clear() and return ConversationHandler.END
EndConversation(r) == [r EXCEPT !.pc = "idle", !.user_data = {}]

\* a handler of the dialogue that writes nothing but its answer
Answer(r, text) ==
    /\ req' = r
    /\ reply' = text
    /\ sweep_log' = NoLog
    /\ UNCHANGED metadata_vars
    /\ ret' = NoRet
    /\ UNCHANGED <<cfg, uploads, next_id, clock, sweep>>

\* /upload
ConvUpload ==
    /\ req.pc = "idle"
    /\ Answer([req EXCEPT !.pc = "ask_video"], "step_1")

\* receive_video, lines 100-107: not an mp4, or too large
ConvReceiveVideoInvalid ==
    /\ req.pc = "ask_video"
    /\ Answer(req, "invalid_video")

\* receive_video, lines 109-111
ConvReceiveVideo ==
    /\ req.pc = "ask_video"
    /\ Answer([req EXCEPT !.pc = "ask_title",
                          !.user_data = @ \cup {"video_info"}], "step_2")

\* receive_title, lines 115-118
ConvReceiveTitleEmpty ==
    /\ req.pc = "ask_title"
    /\ Answer(req, "empty_title")

\* receive_title, lines 120-145
ConvReceiveTitle ==
    /\ req.pc = "ask_title"
    /\ Answer([req EXCEPT !.pc = "confirm",
                          !.user_data = @ \cup {"video_title"}], "step_3")

\* confirm_handler, lines 152-155: the cancel button
ConvConfirmCancel ==
    /\ req.pc = "confirm"
    /\ Answer(EndConversation(req), "upload_cancelled")

\* cancel, the fallback of the conversation: /cancel at any position of it
ConvCancel ==
    /\ req.pc \in {"ask_video", "ask_title", "confirm"}
    /\ Answer(EndConversation(req), "cancelled")

\* confirm_handler, lines 157-169 and 199-211: the confirm button or the
\* force button, up to the first await of handle_upload
ConvConfirmUpload ==
    /\ req.pc = "confirm"
    /\ UserData \subseteq req.user_data
    /\ next_id <= MaxJobs
    /\ Answer([pc |-> "download", now |-> clock,
               uploaded_today |-> count_uploaded_on(uploads, DateOf(clock)),
               seq_no |-> next_seq_no(uploads, SeqBase),
               user_data |-> req.user_data], "processing")

\* confirm_handler, lines 174-191: DuplicateVideoError keeps the dialogue
\* at CONFIRM, with the session data, for the force button
ConvDuplicate ==
    /\ req.pc = "download"
    /\ \E file_hash \in Hashes :
          /\ Duplicate(uploads, file_hash, FALSE)
          /\ UNCHANGED metadata_vars
          /\ ret' = UploadRet(FALSE, file_hash,
                              check_if_hash_exists(uploads, file_hash))
    /\ req' = [ReqIdle EXCEPT !.pc = "confirm", !.user_data = req.user_data]
    /\ reply' = "duplicate"
    /\ sweep_log' = NoLog
    /\ UNCHANGED <<cfg, uploads, next_id, clock, sweep>>

ConvNext ==
    \/ ConvUpload
    \/ ConvReceiveVideoInvalid \/ ConvReceiveVideo
    \/ ConvReceiveTitleEmpty \/ ConvReceiveTitle
    \/ ConvConfirmCancel \/ ConvCancel
    \/ ConvConfirmUpload \/ ConvDuplicate
    \/ HandleUploadAwaitFail \/ HandleUploadFfmpegFail
    \/ HandleUploadNow \/ HandleUploadQueue
    \/ Tick

SpecConv == Init /\ [][ConvNext]_vars

\* ---------------------------------------------------------- metadata.py
\* A string of word characters is known by its place among the strings in
\* alphabetical order (key), its length (len) and whether it has upper-case
\* letters (upper); a line of text is its words and the white space around
\* them (pad).
Word(key, len, upper) == [key |-> key, len |-> len, upper |-> upper]

Text(pad, words) == [pad |-> pad, words |-> words]

RECURSIVE SumLen(_)
SumLen(words) ==
    IF words = <<>> THEN 0 ELSE Head(words).len + SumLen(Tail(words))

\* len(text): the words, one blank between two of them, and the padding
len(text) ==
    text.pad + SumLen(text.words)
    + (IF text.words = <<>> THEN 0 ELSE Len(text.words) - 1)

\* str.strip()
strip(text) == [text EXCEPT !.pad = 0]

\* str.lower()
lower(text) ==
    [text EXCEPT !.words = [i \in DOMAIN text.words |->
                               [text.words[i] EXCEPT !.upper = FALSE]]]

\* the order of sorted() on strings: upper-case letters come first
Precedes(a, b) ==
    IF a.upper # b.upper THEN a.upper
    ELSE IF a.key # b.key THEN a.key < b.key
    ELSE a.len < b.len

RECURSIVE sorted(_)
sorted(tags) ==
    IF tags = {} THEN <<>>
    ELSE LET first == CHOOSE t \in tags :
                         \A u \in tags \ {t} : Precedes(t, u)
         IN <<first>> \o sorted(tags \ {first})

\* re.findall(r'\b\w{4,}\b', title)
keywords(title) ==
    {title.words[i] :
        i \in {j \in DOMAIN title.words : title.words[j].len >= MinKeyword}}

\* the outcomes of random.sample(tag_list, min(5, len(tag_list))), as sets;
\* none when the file is missing or is not JSON
random_sample(file) ==
    IF file.state # "ok" THEN {{}}
    ELSE LET tag_list == file.tag_list
             k == IF Len(tag_list) < SampleSize THEN Len(tag_list)
                  ELSE SampleSize
         IN {{tag_list[i] : i \in I} :
                I \in {J \in SUBSET DOMAIN tag_list : Cardinality(J) = k}}

\* the loop of generate_tags, with tag_string known by its length
RECURSIVE tag_loop(_, _, _)
tag_loop(sorted_tags, tag_string, tags) ==
    IF sorted_tags = <<>> THEN tags
    ELSE LET tag == Head(sorted_tags)
         IN IF tag_string + tag.len + SeparatorLen > TagLimit THEN tags
            ELSE tag_loop(Tail(sorted_tags),
                          tag_string + tag.len + SeparatorLen,
                          Append(tags, tag))

\* generate_tags, had the loop kept every tag
generate_tags_all(title, random_tags) ==
    sorted(random_tags \cup keywords(lower(title)))

\* generate_tags(title) when random.sample returned random_tags
generate_tags(title, random_tags) ==
    tag_loop(sorted(random_tags \cup keywords(lower(title))), 0, <<>>)

\* item.get("number", 0) of every item, and max(numbers, default=99)
RECURSIVE max_number(_)
max_number(queue) ==
    IF queue = <<>> THEN NoNumber
    ELSE LET rest == max_number(Tail(queue))
         IN IF Len(queue) > 1 /\ rest >= Head(queue).number THEN rest
            ELSE Head(queue).number

_load_last_video_number(file) ==
    IF file.state # "ok" THEN NoNumber ELSE max_number(file.queue)

\* _save_video_metadata, had it started from an empty queue every time
_save_video_metadata_fresh(file, video_data) ==
    [state |-> "ok", queue |-> <<video_data>>, tag_list |-> <<>>]

_save_video_metadata(file, video_data) ==
    LET db == IF file.state # "ok" THEN <<>> ELSE file.queue
    IN [state |-> "ok", queue |-> Append(db, video_data), tag_list |-> <<>>]

\* the text that stands for an input of fewer than four characters
DefaultInput ==
    Text(0, <<Word(1, 6, TRUE), Word(2, 5, FALSE), Word(3, 7, FALSE)>>)

\* the words a title is made of
TitleWords ==
    { Word(4, 3, FALSE), Word(5, 5, TRUE), Word(6, 246, FALSE),
      Word(8, 493, FALSE) }

\* the titles given to generate_tags
TagTitles ==
    {Text(0, <<>>)} \cup {Text(0, <<w>>) : w \in TitleWords}
       \cup {Text(0, <<Word(5, 5, TRUE), Word(6, 246, FALSE)>>)}

\* the inputs given to create_video_metadata
UserInputs ==
    { Text(1, <<Word(4, 3, FALSE)>>),
      Text(2, <<Word(5, 5, TRUE), Word(4, 3, FALSE)>>),
      Text(0, <<Word(6, 246, FALSE)>>) }

\* the lines of the description template file
Descriptions == {"d1", "d2"}

\* the list of the tags template file is a beginning of this one
TemplateTags ==
    << Word(4, 3, FALSE), Word(7, 243, FALSE), Word(6, 246, FALSE),
       Word(5, 5, TRUE), Word(7, 243, FALSE), Word(9, 494, FALSE) >>

TagsFile(tag_list) == [state |-> "ok", queue |-> <<>>, tag_list |-> tag_list]

InvalidFile == [state |-> "invalid", queue |-> <<>>, tag_list |-> <<>>]

\* the queue file as the test leaves it before its call
EmptyQueueFile == [state |-> "ok", queue |-> <<>>, tag_list |-> <<>>]

InitMetadata ==
    /\ cfg \in {c \in Configs : c.daily_limit = 1}
    /\ InitBot
    /\ database_file \in {MissingFile, InvalidFile, EmptyQueueFile}
    /\ tags_template_file
          \in {MissingFile, InvalidFile}
              \cup {TagsFile(SubSeq(TemplateTags, 1, n)) :
                       n \in 0..Len(TemplateTags)}
    /\ metadata = NoMetadata
    /\ final_tags = <<>>

\* generate_tags(title)
GenerateTags ==
    /\ \E title \in TagTitles :
          \E random_tags \in random_sample(tags_template_file) :
             final_tags' = generate_tags(title, random_tags)
    /\ UNCHANGED <<cfg, uploads, next_id, clock, sweep, req, reply,
                   sweep_log, ret>>
    /\ UNCHANGED <<database_file, tags_template_file, metadata>>

\* create_video_metadata(user_input)
CreateVideoMetadata ==
    /\ Len(database_file.queue) < MaxQueue
    /\ \E user_input \in UserInputs :
          \E description \in Descriptions :
             \E random_tags \in random_sample(tags_template_file) :
                LET stripped == strip(user_input)
                    input == IF len(stripped) < MinInput THEN DefaultInput
                             ELSE stripped
                    number == _load_last_video_number(database_file) + 1
                    video_data ==
                        [title |-> <<input, number>>,
                         description |-> description,
                         tags |-> generate_tags(input, random_tags),
                         madeForKids |-> FALSE,
                         number |-> number]
                IN /\ database_file' =
                         _save_video_metadata(database_file, video_data)
                   /\ metadata' = video_data
                   /\ final_tags' = video_data.tags
    /\ UNCHANGED <<cfg, uploads, next_id, clock, sweep, req, reply,
                   sweep_log, ret>>
    /\ UNCHANGED tags_template_file

MetadataNext == GenerateTags \/ CreateVideoMetadata

SpecMetadata == InitMetadata /\ [][MetadataNext]_vars

\* ------------------------------------------- app/db.py called directly
\* The functions of app/db.py as a caller of the module may use them, on
\* any id: the rows are written by log_new_job, mark_uploaded and
\* mark_failed, and delete_scheduled_video is called on what they left.
DbLogNewJob ==
    /\ next_id <= MaxJobs
    /\ \E base_title \in Titles, file_hash \in Hashes,
          status \in {"scheduled", "uploaded"} :
          LET seq_no == next_seq_no(uploads, SeqBase)
          IN uploads' = log_new_job(uploads, next_id,
                            enhance_metadata(base_title, seq_no), clock,
                            status, seq_no, file_hash,
                            IF status = "uploaded" THEN clock ELSE NULL)
    /\ next_id' = next_id + 1
    /\ UNCHANGED metadata_vars
    /\ ret' = NoRet
    /\ UNCHANGED <<cfg, clock, sweep, req, reply, sweep_log>>

DbMarkUploaded ==
    /\ \E job_id \in 1..MaxJobs :
          uploads' = mark_uploaded(uploads, job_id, clock)
    /\ UNCHANGED metadata_vars
    /\ ret' = NoRet
    /\ UNCHANGED <<cfg, next_id, clock, sweep, req, reply, sweep_log>>

DbMarkFailed ==
    /\ \E job_id \in 1..MaxJobs :
          uploads' = mark_failed(uploads, job_id, DownloadError)
    /\ UNCHANGED metadata_vars
    /\ ret' = NoRet
    /\ UNCHANGED <<cfg, next_id, clock, sweep, req, reply, sweep_log>>

DbDelete ==
    /\ \E job_id \in 1..MaxJobs :
          LET deleted == delete_scheduled_video(uploads, job_id)
          IN /\ uploads' = deleted.db
             /\ UNCHANGED metadata_vars
             /\ ret' = DeleteRet(job_id, deleted.ok, 0)
    /\ UNCHANGED <<cfg, next_id, clock, sweep, req, reply, sweep_log>>

DbNext == DbLogNewJob \/ DbMarkUploaded \/ DbMarkFailed \/ DbDelete

SpecDb == Init /\ [][DbNext]_vars

\* =================================================================
\* Properties
\* =================================================================
Scheduled(db, i) == db[i].status = "scheduled"

\* the row the sweep is working on
CurRow == uploads[CurJob]

\* section 4.2 of the specification: the slot of date d, counting the
\* Scheduled rows whose instant lies between the two midnights of d
ExpectedSlot(db, d) ==
    LET k == Cardinality({i \in Ids(db) :
                 /\ Scheduled(db, i)
                 /\ d * MinutesPerDay <= db[i].scheduled_at
                 /\ db[i].scheduled_at < (d + 1) * MinutesPerDay})
    IN d * MinutesPerDay + cfg.upload_start_hour * MinutesPerHour
         + k * cfg.upload_interval_minutes

\* the step is the queued branch of handle_upload, creating row next_id
QueuedStep == req.pc = "download" /\ reply' = "scheduled"

\* the step is the sweep's except handler, entered from pc `from`
ExceptStep(from) == sweep.pc = from /\ sweep'.pc = "send_err"

\* the step is the sweep's daily-limit branch for the job sweep'.due[sweep'.i]
LimitStep ==
    /\ sweep'.pc = "send_limit"
    /\ sweep.pc # "send_limit" \/ sweep'.i # sweep.i

\* C1: for every UTC date, the number of rows with status uploaded whose
\* uploaded_at falls on that date is at most the daily limit.
C1_QuotaRespected ==
    \A d \in 0..DateOf(MaxClock) :
        count_uploaded_on(uploads, d) <= cfg.daily_limit

\* C2: once the running count of a sweep has reached the daily limit, every
\* remaining due job of the sweep is rescheduled and stays scheduled: the
\* job of the daily-limit branch is scheduled, and the sweep does not end
\* with the limit reached and due jobs it never came to.
C2_RemainderRescheduled ==
    /\ (sweep.pc = "send_limit" /\ CurJob \in Ids(uploads))
          => Scheduled(uploads, CurJob)
    /\ sweep_log.quota_hit => sweep_log.left = 0

\* C3: a job the sweep has dispatched with zero successful destinations is
\* not marked uploaded: it is scheduled, for a day after the sweep's.
C3_ZeroSuccessNotUploaded ==
    (sweep.pc = "send_ok" /\ sweep.num_ok = 0 /\ CurJob \in Ids(uploads))
        => /\ Scheduled(uploads, CurJob)
           /\ DateOf(CurRow.scheduled_at) > sweep.today

\* C4: uploaded and failed are terminal: no step changes the status of a
\* row that is uploaded or failed.
C4_TerminalStatus ==
    [][\A i \in Ids(uploads) :
          uploads[i].status \in {"uploaded", "failed"}
              => /\ i \in Ids(uploads')
                 /\ uploads'[i].status = uploads[i].status]_vars

\* C5: a send_message that raises during a sweep leaves every row as it
\* was, which is what a send_message that returns does to the row it
\* reports on.
C5_NotifyFailureKeepsRows ==
    [][(\/ ExceptStep("send_ok")
        \/ /\ sweep.pc \in {"send_limit", "send_err"}
           /\ sweep_log'.result = "crashed")
          => uploads' = uploads]_vars

\* C6: a failure while processing one due job never keeps the sweep from
\* processing the later due jobs: no sweep ends in the outer except with
\* due jobs it never came to.
C6_FailureIsolated ==
    sweep_log.result = "crashed" => sweep_log.left = 0

C8_SlotsUnique ==
    \A i, j \in Ids(uploads) :
        (i # j /\ Scheduled(uploads, i) /\ Scheduled(uploads, j))
            => uploads[i].scheduled_at # uploads[j].scheduled_at

\* C9: both allocators return dayStart(date) + startHour hours +
\* countScheduledOn(date) * interval, counting the rows that are scheduled
\* on that date when the allocator is called: the queued branch of
\* handle_upload, the daily-limit branch and the except handler of the
\* sweep all store that instant.
C9_AllocatorFormula ==
    [][/\ QueuedStep
            => uploads'[next_id].scheduled_at
                  = ExpectedSlot(uploads, DateOf(req.now) + 1)
       /\ (LimitStep /\ sweep'.due[sweep'.i] \in Ids(uploads))
            => uploads'[sweep'.due[sweep'.i]].scheduled_at
                  = ExpectedSlot(uploads, sweep.today + 1)
       /\ ((ExceptStep("download") \/ ExceptStep("send_ok"))
             /\ CurJob \in Ids(uploads))
            => uploads'[CurJob].scheduled_at
                  = ExpectedSlot(uploads, sweep.today + 1)]_vars

\* a queued submission has just taken the second slot of its date
C9_Witness ==
    /\ reply = "scheduled"
    /\ \E i \in Ids(uploads) \ {next_id - 1} :
          /\ Scheduled(uploads, i)
          /\ uploads[next_id - 1].scheduled_at
                = uploads[i].scheduled_at + cfg.upload_interval_minutes

\* C10: after one row is inserted at the slot the allocator returned for
\* date D, the next allocator call for D returns a slot exactly one
\* interval later.
C10_SlotAdvancesByInterval ==
    [][QueuedStep =>
          LET D == DateOf(req.now) + 1
          IN /\ next_available_slot(uploads', cfg, D)
                  = next_available_slot(uploads, cfg, D)
                      + cfg.upload_interval_minutes
             /\ compute_next_day_slot(uploads', D, cfg.upload_start_hour,
                                      cfg.upload_interval_minutes)
                  = compute_next_day_slot(uploads, D, cfg.upload_start_hour,
                                          cfg.upload_interval_minutes)
                      + cfg.upload_interval_minutes]_vars

\* the step is a deletion the user confirmed
DeleteStep == reply' \in {"deleted", "deleted_shifted"}

\* the scheduled rows of db
ScheduledIds(db) == {i \in Ids(db) : Scheduled(db, i)}

\* C11: deleting a scheduled row with time t removes exactly that row (one
\* scheduled row fewer), moves every scheduled row strictly later than t to
\* its old time minus the interval, leaves every other row as it was, and
\* returns the number of rows it moved.
C11_DeletionCascade ==
    [][DeleteStep =>
          \E d \in ScheduledIds(uploads) :
             LET t == uploads[d].scheduled_at
                 later == {i \in ScheduledIds(uploads) :
                              uploads[i].scheduled_at > t}
             IN /\ Ids(uploads') = Ids(uploads) \ {d}
                /\ Cardinality(ScheduledIds(uploads'))
                      = Cardinality(ScheduledIds(uploads)) - 1
                /\ \A i \in later :
                      uploads'[i] = [uploads[i] EXCEPT !.scheduled_at =
                                        uploads[i].scheduled_at
                                           - cfg.upload_interval_minutes]
                /\ \A i \in Ids(uploads') \ later : uploads'[i] = uploads[i]
                /\ ret'.count = Cardinality(later)]_vars

\* a deletion has just moved two later rows
C11_Witness ==
    /\ reply = "deleted_shifted"
    /\ ret.count = 2
    /\ Cardinality(ScheduledIds(uploads)) = 2

\* the rows of db that carry the digest h
WithHash(db, h) == {i \in Ids(db) : db[i].file_hash = h}

\* the step completes a call of handle_upload
UploadCallStep == req.pc = "download" /\ req'.pc = "idle"
                     /\ reply' # "error"

\* C12: when a row with digest H exists in any status, a call without
\* force_upload on content with digest H raises the duplicate conflict with
\* the stored date and title of the earliest-inserted row with H, uploads
\* nothing and creates no row: the store is unchanged.
C12_DuplicateConflict ==
    [][(/\ UploadCallStep
        /\ ~ret'.force_upload
        /\ WithHash(uploads, ret'.file_hash) # {})
          => LET hits == WithHash(uploads, ret'.file_hash)
                 first == CHOOSE i \in hits : \A j \in hits : i <= j
             IN /\ reply' = "duplicate"
                /\ ret'.dup.date = DateOf(uploads[first].scheduled_at)
                /\ ret'.dup.title = uploads[first].title
                /\ uploads' = uploads
                /\ next_id' = next_id]_vars

\* a conflict has just been raised against the first of two rows with the
\* same digest, an uploaded one, the other being on a later date
C12_Witness ==
    /\ reply = "duplicate"
    /\ \E i, j \in WithHash(uploads, ret.file_hash) :
          /\ i < j
          /\ uploads[i].status = "uploaded"
          /\ ret.dup.date = DateOf(uploads[i].scheduled_at)
          /\ ret.dup.date # DateOf(uploads[j].scheduled_at)

\* C13: a call with force_upload on content whose digest H a row already
\* carries creates exactly one new row, which carries H too, and leaves
\* every field of every row that was there unchanged; the new row is
\* uploaded or queued as any accepted submission is.
C13_ForceCreatesIndependentJob ==
    [][(/\ UploadCallStep
        /\ ret'.force_upload
        /\ reply' # "ffmpeg_error"
        /\ WithHash(uploads, ret'.file_hash) # {})
          => /\ next_id \notin Ids(uploads)
             /\ Ids(uploads') = Ids(uploads) \cup {next_id}
             /\ next_id' = next_id + 1
             /\ uploads'[next_id].file_hash = ret'.file_hash
             /\ \A i \in Ids(uploads) : uploads'[i] = uploads[i]
             /\ uploads'[next_id].status
                   = IF req.uploaded_today < cfg.daily_limit
                     THEN "uploaded" ELSE "scheduled"]_vars

\* a forced call has just queued a second row with the digest of a row
\* that is still queued
C13_Witness ==
    /\ reply = "scheduled"
    /\ ret.force_upload
    /\ \E i \in WithHash(uploads, ret.file_hash) :
          /\ i < next_id - 1
          /\ Scheduled(uploads, i)
          /\ uploads[next_id - 1].file_hash = uploads[i].file_hash

\* the rows uploaded on date d
UploadedOn(db, d) ==
    {i \in Ids(db) : /\ db[i].status = "uploaded"
                     /\ db[i].uploaded_at # NULL
                     /\ d * MinutesPerDay <= db[i].uploaded_at
                     /\ db[i].uploaded_at < (d + 1) * MinutesPerDay}

\* the step completes a call of handle_upload that was accepted: no
\* duplicate conflict and no processing error
AcceptedStep == UploadCallStep /\ reply' \notin {"duplicate", "ffmpeg_error"}

\* C14: a submission is decided on the number of rows uploaded on its UTC
\* date when it is made.  Accepted with that number below the daily limit,
\* it is uploaded at once and recorded as exactly one new row with status
\* uploaded and uploaded_at set; accepted with that number at or above the
\* limit, it uploads nothing and creates exactly one new row with status
\* scheduled at the allocator's next slot of the following UTC date.
C14_ImmediateOrQueued ==
    [][/\ (req.pc = "idle" /\ req'.pc = "download")
            => /\ req'.now = clock
               /\ req'.uploaded_today
                     = Cardinality(UploadedOn(uploads, DateOf(clock)))
       /\ AcceptedStep
            => /\ next_id \notin Ids(uploads)
               /\ Ids(uploads') = Ids(uploads) \cup {next_id}
               /\ \A i \in Ids(uploads) : uploads'[i] = uploads[i]
               /\ IF req.uploaded_today < cfg.daily_limit
                  THEN /\ reply' \in {"uploaded_all", "uploaded_partial"}
                       /\ uploads'[next_id].status = "uploaded"
                       /\ uploads'[next_id].uploaded_at = req.now
                       /\ uploads'[next_id].uploaded_at # NULL
                  ELSE /\ reply' = "scheduled"
                       /\ uploads'[next_id].status = "scheduled"
                       /\ uploads'[next_id].uploaded_at = NULL
                       /\ uploads'[next_id].scheduled_at
                             = ExpectedSlot(uploads, DateOf(req.now) + 1)]_vars

\* a submission made on a date with the limit reached has just been queued,
\* on a later date than one made below the limit, which was uploaded
C14_Witness ==
    /\ reply = "scheduled"
    /\ Scheduled(uploads, next_id - 1)
    /\ \E i \in Ids(uploads) :
          /\ uploads[i].status = "uploaded"
          /\ DateOf(uploads[i].uploaded_at) + 1
                = DateOf(uploads[next_id - 1].scheduled_at)
    /\ \E i \in Ids(uploads) :
          /\ uploads[i].status = "uploaded"
          /\ DateOf(uploads[i].uploaded_at) + 1
                < DateOf(uploads[next_id - 1].scheduled_at)

\* the configuration of the end-to-end scenario of section 8
ScenarioCfg == [daily_limit |-> 2, upload_start_hour |-> 10,
                upload_interval_minutes |-> 30]

\* 10:00 plus k intervals of the day after the instant T
ScenarioSlot(T, k) ==
    (DateOf(T) + 1) * MinutesPerDay + 10 * MinutesPerHour + k * 30

\* the store of the scenario after n submissions at the instant T (the
\* only ones ever made when next_id = n + 1): jobs 1 and 2 uploaded at T,
\* job 3 queued at tomorrow 10:00, job 4 at 10:30
Scenario(db, n, T) ==
    /\ Ids(db) = 1..n
    /\ \A i \in Ids(db) :
          IF i <= 2
          THEN /\ db[i].status = "uploaded"
               /\ db[i].uploaded_at = T
          ELSE /\ db[i].status = "scheduled"
               /\ db[i].scheduled_at = ScenarioSlot(T, i - 3)

\* C15: with daily_limit 2, interval 30 and start hour 10 and an empty
\* store, of the submissions made at one instant the 1st and 2nd are
\* uploaded at once (2 rows uploaded today), the 3rd is queued at tomorrow
\* 10:00 and the 4th at tomorrow 10:30; deleting the 10:00 job then moves
\* the 10:30 job to 10:00 and count_scheduled_on(tomorrow) goes from 2 to 1.
C15_EndToEndScenario ==
    [][cfg = ScenarioCfg =>
          /\ \A n \in 0..3 :
                (/\ AcceptedStep
                 /\ next_id = n + 1
                 /\ Scenario(uploads, n, req.now))
                   => Scenario(uploads', n + 1, req.now)
          /\ (AcceptedStep /\ Scenario(uploads, 1, req.now))
                => count_uploaded_on(uploads', DateOf(req.now)) = 2
          /\ (/\ DeleteStep
              /\ next_id = 5
              /\ 1 \in Ids(uploads)
              /\ Scenario(uploads, 4, uploads[1].uploaded_at)
              /\ 3 \notin Ids(uploads'))
                => LET T == uploads[1].uploaded_at
                   IN /\ Ids(uploads') = {1, 2, 4}
                      /\ uploads'[4].status = "scheduled"
                      /\ uploads'[4].scheduled_at = ScenarioSlot(T, 0)
                      /\ count_scheduled_on(uploads, DateOf(T) + 1) = 2
                      /\ count_scheduled_on(uploads', DateOf(T) + 1) = 1
                      /\ ret'.count = 1]_vars

\* the end of the scenario: the 10:00 job deleted, the 4th job at 10:00
C15_Witness ==
    /\ cfg = ScenarioCfg
    /\ reply = "deleted_shifted"
    /\ Ids(uploads) = {1, 2, 4}
    /\ uploads[1].status = "uploaded"
    /\ uploads[2].status = "uploaded"
    /\ uploads[2].uploaded_at = uploads[1].uploaded_at
    /\ uploads[4].status = "scheduled"
    /\ uploads[4].scheduled_at = ScenarioSlot(uploads[1].uploaded_at, 0)
    /\ uploads[4].seq_no = SeqBase + 3

\* C16: no accepted job is dropped: every step that is not a deletion the
\* user confirmed keeps every row, a confirmed deletion removes exactly one
\* row, a scheduled one, and every row has exactly one of the statuses
\* scheduled, uploaded and failed.
C16_NoJobDropped ==
    [][/\ ~DeleteStep => Ids(uploads) \subseteq Ids(uploads')
       /\ DeleteStep
            => /\ Ids(uploads') \subseteq Ids(uploads)
               /\ Cardinality(Ids(uploads) \ Ids(uploads')) = 1
               /\ \A i \in Ids(uploads) \ Ids(uploads') :
                     Scheduled(uploads, i)
       /\ \A i \in Ids(uploads') :
             uploads'[i].status \in {"scheduled", "uploaded", "failed"}]_vars

\* every job ever created is in the store after a sweep that uploaded one
\* queued job and rescheduled another
C16_Witness ==
    /\ sweep_log.result = "done"
    /\ next_id = MaxJobs + 1
    /\ Ids(uploads) = 1..MaxJobs
    /\ \E i \in Ids(uploads) : /\ uploads[i].status = "uploaded"
                               /\ uploads[i].uploaded_at
                                     # uploads[i].scheduled_at
    /\ \E i \in Ids(uploads) : /\ Scheduled(uploads, i)
                               /\ uploads[i].error # NoError

\* the step begins a sweep that goes into its loop: only the first lines
\* of process_scheduled lead to the first due job
SweepBeginStep ==
    /\ sweep'.i = 1
    /\ sweep'.pc \in {"download", "send_limit"}
    /\ sweep' # sweep

IsScheduledRow(db, job_id) == job_id \in Ids(db) /\ Scheduled(db, job_id)

\* C19: mark_uploaded, mark_failed and reschedule applied to an id that
\* does not exist or whose row is not scheduled leave the store unchanged
\* (and report an error): reschedule never turns an uploaded or failed row
\* back into scheduled and mark_uploaded never overwrites the uploaded_at
\* of an uploaded row.  The sweep applies mark_uploaded after the download,
\* reschedule in its except handler and in its daily-limit branch.
C19_UpdatesNeedScheduledRow ==
    [][/\ (/\ sweep.pc = "download" /\ sweep'.pc = "send_ok"
           /\ ~IsScheduledRow(uploads, CurJob))
             => uploads' = uploads
       /\ (/\ ExceptStep("download") \/ ExceptStep("send_ok")
           /\ ~IsScheduledRow(uploads, CurJob))
             => uploads' = uploads
       /\ (/\ LimitStep
           /\ ~IsScheduledRow(uploads, sweep'.due[sweep'.i]))
             => uploads' = uploads]_vars

\* C20: sequence numbers are strictly increasing over the lifetime of the
\* store and never reused.  Ids come from AUTOINCREMENT, so the row with id
\* j is the j-th job ever created: its seq_no is greater than that of every
\* row with a lower id, and, the first being SeqBase and the j - 1 jobs
\* created before it (deleted or not) holding j - 1 distinct lower numbers,
\* it is at least SeqBase + j - 1.
C20_SeqNoNeverReused ==
    \A j \in Ids(uploads) :
       /\ uploads[j].seq_no >= SeqBase + j - 1
       /\ \A i \in Ids(uploads) :
             i < j => uploads[i].seq_no < uploads[j].seq_no

\* C18: delete_scheduled_video(job_id) returns true if and only if a
\* scheduled row with that id existed and the call removed it; for a
\* missing id and for a row that is uploaded or failed it returns false
\* and removes nothing.
C18_DeleteReportsRemoval ==
    [][ret'.job_id # 0 =>
          /\ ret'.deleted <=> /\ IsScheduledRow(uploads, ret'.job_id)
                              /\ ret'.job_id \notin Ids(uploads')
          /\ ~IsScheduledRow(uploads, ret'.job_id)
                => /\ ~ret'.deleted
                   /\ uploads' = uploads]_vars

\* C21: uploaded_at is set exactly once, on the transition to uploaded: a
\* row has an uploaded_at if and only if its status is uploaded, and an
\* uploaded_at that is set never changes.
C21_UploadedAtSetOnce ==
    [][\A i \in Ids(uploads') :
          /\ uploads'[i].uploaded_at # NULL
                <=> uploads'[i].status = "uploaded"
          /\ (i \in Ids(uploads) /\ uploads[i].uploaded_at # NULL)
                => uploads'[i].uploaded_at = uploads[i].uploaded_at]_vars

\* the rows of db that are due at the instant now
DueIds(db, now) ==
    {i \in ScheduledIds(db) : db[i].scheduled_at <= now}

\* C22: due_jobs(now) returns exactly the rows that are scheduled with
\* scheduled_at <= now, each once, in ascending (scheduled_at, id) order,
\* and the sweep goes through that list from its first job on, one job
\* after the other.
C22_DueJobsInOrder ==
    [][/\ SweepBeginStep
            => LET due == sweep'.due
               IN /\ {due[k] : k \in 1..Len(due)} = DueIds(uploads, clock)
                  /\ Len(due) = Cardinality(DueIds(uploads, clock))
                  /\ \A a, b \in 1..Len(due) :
                        a < b =>
                           \/ uploads[due[a]].scheduled_at
                                 < uploads[due[b]].scheduled_at
                           \/ /\ uploads[due[a]].scheduled_at
                                    = uploads[due[b]].scheduled_at
                              /\ due[a] < due[b]
       /\ sweep_log'.result = "empty" => DueIds(uploads, clock) = {}
       /\ (sweep.pc # "idle" /\ sweep'.pc # "idle")
            => /\ sweep'.due = sweep.due
               /\ sweep'.i \in {sweep.i, sweep.i + 1}]_vars

\* a sweep is dispatching the second job of its list, a job that is still
\* scheduled and due
C22_Witness ==
    /\ sweep.pc = "download"
    /\ sweep.i = 2
    /\ CurJob \in DueIds(uploads, clock)

\* C23: a deletion request for an id that is absent or whose row is not
\* scheduled is answered "not found" and changes nothing: the answer "not
\* found" comes with no row removed and no row shifted, and a deletion is
\* carried out only for the id of a row that is scheduled.
C23_DeleteNotFound ==
    [][/\ reply' = "not_found"
            => /\ uploads' = uploads
               /\ \E job_id \in 1..(next_id - 1) :
                     ~IsScheduledRow(uploads, job_id)
       /\ DeleteStep => IsScheduledRow(uploads, ret'.job_id)]_vars

\* a deletion request has just been answered "not found" with the only
\* jobs ever created being an uploaded one and a queued one that was
\* deleted
C23_Witness ==
    /\ reply = "not_found"
    /\ next_id = 3
    /\ Ids(uploads) = {1}
    /\ uploads[1].status = "uploaded"

\* C24: cancelling the dialogue before handle_upload is called, with
\* /cancel or with the cancel button, only clears the session data and ends
\* the conversation: the set of rows and every field of every row are
\* unchanged.
C24_CancelKeepsStore ==
    [][reply' \in {"cancelled", "upload_cancelled"}
          => /\ uploads' = uploads
             /\ next_id' = next_id
             /\ req'.user_data = {}
             /\ req'.pc = "idle"]_vars

\* the cancel button has just ended a dialogue that had its video and its
\* title, with an uploaded and a queued job in the store
C24_Witness ==
    /\ reply = "upload_cancelled"
    /\ req = ReqIdle
    /\ \E i \in Ids(uploads) : uploads[i].status = "uploaded"
    /\ ScheduledIds(uploads) # {}

\* the sum the test of metadata.py computes: the lengths of the tags and
\* two separator characters for each
TotalTagChars(tags) == SumLen(tags) + 2 * Len(tags)

\* C25: for every title and every tag template list, the tags generate_tags
\* returns have a total length, counting two separator characters per tag,
\* below 500 characters.
C25_TagsBelowLimit ==
    /\ TotalTagChars(final_tags) < 500
    /\ TotalTagChars(metadata.tags) < 500

\* a call has returned tags that fill the limit of the loop to the last
\* character
C25_Witness ==
    /\ final_tags # <<>>
    /\ TotalTagChars(final_tags) = TagLimit

\* the records of the queue file, none when it is missing or is not JSON
QueueOf(file) == IF file.state = "ok" THEN file.queue ELSE <<>>

\* the largest number among the records of a queue that has one
LargestNumber(queue) ==
    CHOOSE n \in {queue[i].number : i \in DOMAIN queue} :
       \A i \in DOMAIN queue : queue[i].number <= n

\* C26: each call of create_video_metadata appends exactly one record to
\* the persisted queue, equal to the returned metadata (madeForKids false),
\* leaves the earlier records unchanged, and numbers it one greater than
\* the largest number previously in the queue, 100 when the queue is empty
\* or missing.
C26_CreateAppendsOne ==
    [][metadata' # metadata
          => LET old == QueueOf(database_file)
             IN /\ database_file'.state = "ok"
                /\ database_file'.queue = Append(old, metadata')
                /\ metadata'.madeForKids = FALSE
                /\ metadata'.number = IF old = <<>> THEN 100
                                      ELSE LargestNumber(old) + 1]_vars

\* the second call has appended record 101 behind record 100
C26_Witness ==
    /\ Len(database_file.queue) = 2
    /\ database_file.queue[1].number = 100
    /\ database_file.queue[2] = metadata
    /\ metadata.number = 101

\* the scheduler calls process_scheduled
SweepCallStep ==
    /\ sweep.pc = "idle"
    /\ sweep' # sweep \/ sweep_log' # NoLog

\* C27: if the uploaded count for today already meets the daily limit when
\* a sweep starts, that sweep changes nothing: no job is dispatched,
\* rescheduled or marked, and every due job keeps its status and its
\* scheduled_at.
C27_QuotaMetSweepIsNoOp ==
    [][(/\ SweepCallStep
        /\ Cardinality(UploadedOn(uploads, DateOf(clock))) >= cfg.daily_limit)
          => /\ uploads' = uploads
             /\ next_id' = next_id
             /\ sweep' = SweepIdle
             /\ sweep_log'.result = "quota"
             /\ reply' = "none"]_vars

\* a sweep has just ended on the met quota while a job was due
C27_Witness ==
    /\ sweep_log.result = "quota"
    /\ sweep = SweepIdle
    /\ DueIds(uploads, clock) # {}
    /\ Cardinality(UploadedOn(uploads, DateOf(clock))) >= cfg.daily_limit

\* C28: every slot the allocator returns for date D lies on UTC calendar
\* date D, so that a job inserted at that slot is counted by
\* count_scheduled_on(D): the queued branch of handle_upload and the
\* reschedules of the sweep all store an instant of the date they asked for.
C28_SlotOnItsDate ==
    [][/\ QueuedStep
            => LET D == DateOf(req.now) + 1
               IN /\ DateOf(uploads'[next_id].scheduled_at) = D
                  /\ count_scheduled_on(uploads', D)
                        = count_scheduled_on(uploads, D) + 1
       /\ (LimitStep /\ sweep'.due[sweep'.i] \in Ids(uploads))
            => DateOf(uploads'[sweep'.due[sweep'.i]].scheduled_at)
                  = sweep.today + 1
       /\ ((ExceptStep("download") \/ ExceptStep("send_ok"))
             /\ CurJob \in Ids(uploads))
            => DateOf(uploads'[CurJob].scheduled_at) = sweep.today + 1]_vars

\* C29: deleting a Scheduled job whose time is t leaves unchanged every
\* Scheduled job whose scheduled_at is at or before t and every Uploaded or
\* Failed job; of a shifted job only scheduled_at changes.
C29_DeletionFrame ==
    [][DeleteStep =>
          LET t == uploads[ret'.job_id].scheduled_at
          IN \A i \in Ids(uploads) \ {ret'.job_id} :
                /\ i \in Ids(uploads')
                /\ (uploads[i].status # "scheduled"
                      \/ uploads[i].scheduled_at <= t)
                     => uploads'[i] = uploads[i]
                /\ [uploads'[i] EXCEPT !.scheduled_at =
                                          uploads[i].scheduled_at]
                     = uploads[i]]_vars

\* a deletion has just moved one row and has left alone an uploaded row
\* and a scheduled row that was not later than the deleted one
C29_Witness ==
    /\ reply = "deleted_shifted"
    /\ ret.count = 1
    /\ Cardinality(ScheduledIds(uploads)) = 2
    /\ \E i \in Ids(uploads) : uploads[i].status = "uploaded"

\* A precedes B in the order of the queue listing: scheduled_at, then id
QueueBefore(db, a, b) ==
    \/ db[a].scheduled_at < db[b].scheduled_at
    \/ db[a].scheduled_at = db[b].scheduled_at /\ a < b

\* C30: queue order is stable under deletion: for any two Scheduled jobs A
\* and B that remain after a deletion with its cascading shift, A precedes
\* B in (scheduled_at, id) order after the deletion if and only if A
\* preceded B before it.
C30_OrderStableUnderDeletion ==
    [][DeleteStep =>
          \A a, b \in ScheduledIds(uploads') :
             a # b => (QueueBefore(uploads', a, b)
                          <=> QueueBefore(uploads, a, b))]_vars

\* C31: the error message stored by any operation (the insert, mark_failed,
\* and reschedule with the text of a dispatch failure) never exceeds 500
\* characters, whatever the length of the failure text.
C31_ErrorTruncated ==
    \A i \in Ids(uploads) : uploads[i].error.len <= 500

\* the Scheduled rows of db whose scheduled_at falls on UTC date d
ScheduledOn(db, d) ==
    {i \in Ids(db) : /\ db[i].status = "scheduled"
                     /\ d * MinutesPerDay <= db[i].scheduled_at
                     /\ db[i].scheduled_at < (d + 1) * MinutesPerDay}

\* the dates a timestamp of the store can fall on
Dates == 0..(MaxClock \div MinutesPerDay + 2)

\* C32: after any sequence of committed writes count_scheduled_on(D) is the
\* number of Scheduled jobs whose scheduled_at falls on UTC date D and
\* count_uploaded_on(D) is the number of Uploaded jobs whose uploaded_at
\* falls on D; no job is counted by both.
C32_CountsReflectStore ==
    \A D \in Dates :
       /\ count_scheduled_on(uploads, D)
             = Cardinality(ScheduledOn(uploads, D))
       /\ count_uploaded_on(uploads, D)
             = Cardinality(UploadedOn(uploads, D))
       /\ \A E \in Dates : ScheduledOn(uploads, D) \cap UploadedOn(uploads, E) = {}

\* a date has an uploaded job and a queued job, and a job uploaded on
\* another date is counted on neither side of it
C32_Witness ==
    \E D \in Dates :
       /\ count_scheduled_on(uploads, D) = 1
       /\ count_uploaded_on(uploads, D) = 1
       /\ \E i \in Ids(uploads) : /\ uploads[i].status = "uploaded"
                                  /\ DateOf(uploads[i].uploaded_at) # D

\* the ids of a sequence of jobs
Range(seq) == {seq[k] : k \in DOMAIN seq}

\* C33: the cascading shift is unconditional: a later job whose shifted
\* time, its old time less the interval, is at or before the current time
\* is still moved there, remains Scheduled, and is returned by due_jobs(now).
C33_ShiftIntoThePast ==
    [][DeleteStep =>
          LET t == uploads[ret'.job_id].scheduled_at
          IN \A i \in ScheduledIds(uploads) \ {ret'.job_id} :
                (/\ uploads[i].scheduled_at > t
                 /\ uploads[i].scheduled_at - cfg.upload_interval_minutes
                       <= clock)
                  => /\ uploads'[i].scheduled_at
                           = uploads[i].scheduled_at
                                - cfg.upload_interval_minutes
                     /\ uploads'[i].status = "scheduled"
                     /\ i \in Range(due_jobs(uploads', clock'))]_vars

\* a deletion has just moved every job that is left in the queue, and one
\* of them is due now that was not due at its old time
C33_Witness ==
    /\ reply = "deleted_shifted"
    /\ ret.count = Cardinality(ScheduledIds(uploads))
    /\ \E i \in DueIds(uploads, clock) :
          uploads[i].scheduled_at + cfg.upload_interval_minutes > clock

\* C34: deferral is unbounded: a job whose dispatch raises is rescheduled
\* to the following UTC day every time it is processed, stays Scheduled and
\* is never moved to Failed or removed.
C34_DeferredToFollowingDay ==
    [][(ExceptStep("download") /\ CurJob \in Ids(uploads))
          => /\ CurJob \in Ids(uploads')
             /\ uploads'[CurJob].status = "scheduled"
             /\ DateOf(uploads'[CurJob].scheduled_at) = sweep.today + 1
             /\ \A i \in Ids(uploads') : uploads'[i].status # "failed"]_vars

\* the sweep's call of upload_to_all for the job CurJob has returned
DispatchStep == sweep.pc = "download" /\ sweep'.pc = "send_ok"

\* C35: a job that the user has deleted is never dispatched to the upload
\* collaborator afterwards, even when the deletion happens while a sweep
\* that already fetched the job in its due list is still running.
C35_DeletedNeverDispatched ==
    [][DispatchStep => CurJob \in Ids(uploads)]_vars

\* C36: if from some point on no submission or deletion occurs and every
\* dispatch and notification succeeds, then with the sweep waking and the
\* clock advancing every Scheduled job is eventually marked Uploaded.
C36_EveryJobEventuallyUploaded ==
    \A i \in 1..MaxJobs :
       (i \in ScheduledIds(uploads))
          ~> (i \in Ids(uploads) /\ uploads[i].status = "uploaded")

\* every job is uploaded, one of them after the daily limit had pushed it
\* to a later day
C36_Witness ==
    /\ Ids(uploads) = 1..MaxJobs
    /\ \A i \in Ids(uploads) : uploads[i].status = "uploaded"
    /\ \E i \in Ids(uploads) : uploads[i].error = DailyLimitReason

\* the digests that the store holds on more than one row
SharedHashes(db) ==
    {h \in Hashes : Cardinality(WithHash(db, h)) >= 2}

C38_OnlyAdminTakesEffect ==
    [][ret'.user # NULL /\ ~_is_authorized(ret'.user)
          => uploads' = uploads /\ ret'.videos = <<>>]_vars

\* the step ends a submission that cannot proceed: no credentials in
\* channels/, or process_video failed
CannotProceedStep == reply' \in {"no_channels", "ffmpeg_error"}

\* C39: a submission that cannot proceed (no destination credentials, or
\* media processing fails) returns its error message and creates no job:
\* the store is unchanged, no id and no sequence number is consumed, and
\* the call is over.
C39_CannotProceedCreatesNothing ==
    [][CannotProceedStep
          => /\ uploads' = uploads
             /\ next_id' = next_id
             /\ next_seq_no(uploads', SeqBase) = next_seq_no(uploads, SeqBase)
             /\ req'.pc = "idle"
             /\ sweep' = sweep]_vars

\* media processing has just failed for a submission made while jobs
\* are queued
C39_Witness ==
    /\ reply = "ffmpeg_error"
    /\ ScheduledIds(uploads) # {}

====
